---- MODULE Spec2Model ----
(***************************************************************************)
(* Model of src/app.py, the Electric School Bus dashboard script.          *)
(*                                                                         *)
(* The script is re-executed from its first line on every widget change.   *)
(* What survives a re-execution is the st.cache_data store of load_data;  *)
(* every script variable (df, city_df, the KPIs) is rebuilt.               *)
(*                                                                         *)
(* Cells are modelled by what pandas/numpy compute:                        *)
(*   - a float cell is an exact rational, NaN (pandas' missing value) or   *)
(*     +inf (what numpy yields for x/0 with x > 0);                        *)
(*   - a text cell is a sequence of characters or NaN;                     *)
(*   - Series.str.contains(pat, case=False, na=False) is re.search with    *)
(*     re.IGNORECASE (its regex parameter defaults to True).               *)
(***************************************************************************)
EXTENDS FiniteSets, Integers, Sequences, TLC

(* ------------------------------ bounds -------------------------------- *)
MaxRows == 2
MaxBuses == 2
MaxEsb == 1

(* --------------------------- float values ----------------------------- *)
RECURSIVE GCD(_, _)
GCD(a, b) == IF b = 0 THEN a ELSE GCD(b, a % b)

\* an exact non-negative rational n/d in lowest terms
Num(n, d) ==
    LET g == GCD(n, d)
    IN  [k |-> "num", n |-> n \div g, d |-> d \div g]

\* numpy.nan, which pandas treats as the missing value (isnull() is True)
NaN == [k |-> "nan", n |-> 0, d |-> 1]

\* numpy.inf
Inf == [k |-> "inf", n |-> 0, d |-> 1]

\* a script variable that has not been assigned in this run
Unset == [k |-> "unset", n |-> 0, d |-> 1]

\* the factor of lines 53, 69, 70 and 72
Hundred == 100

\* a division that answers 0 when the divisor is 0
TrueDivideZeroOnZero(a, b) ==
    IF b = 0 THEN Num(0, 1) ELSE Num(a, b)

\* a / b on numpy integers: x/0 is inf, 0/0 is nan (a warning, no exception)
TrueDivide(a, b) ==
    IF b = 0 THEN (IF a = 0 THEN NaN ELSE Inf) ELSE Num(a, b)

\* v * c on floats, c a positive integer
Times(v, c) ==
    IF v.k = "num" THEN Num(v.n * c, v.d) ELSE v

\* v + w on floats (no negative values occur, so inf never meets -inf)
Plus(v, w) ==
    IF v.k = "nan" \/ w.k = "nan" THEN NaN
    ELSE IF v.k = "inf" \/ w.k = "inf" THEN Inf
    ELSE Num(v.n * w.d + w.n * v.d, v.d * w.d)

RECURSIVE SumInt(_)
\* Series.sum() of an integer column; the sum of an empty column is 0
SumInt(s) == IF s = <<>> THEN 0 ELSE Head(s) + SumInt(Tail(s))

RECURSIVE SumFloat(_)
SumFloat(s) == IF s = <<>> THEN Num(0, 1) ELSE Plus(Head(s), SumFloat(Tail(s)))

IsNotNaN(v) == v.k # "nan"

NaNAsZero(v) == IF v.k = "nan" THEN Num(0, 1) ELSE v

\* a mean that counts a missing cell as 0
SeriesMeanNaNAsZero(s) ==
    LET total == SumFloat([i \in 1..Len(s) |-> NaNAsZero(s[i])])
    IN  IF s = <<>> THEN NaN
        ELSE IF total.k = "num" THEN Num(total.n, total.d * Len(s))
        ELSE total

\* Series.mean(): NaN cells are skipped (skipna=True); no cell left gives NaN
SeriesMean(s) ==
    LET vals == SelectSeq(s, IsNotNaN)
        total == SumFloat(vals)
    IN  IF vals = <<>> THEN NaN
        ELSE IF total.k = "num" THEN Num(total.n, total.d * Len(vals))
        ELSE total

\* round(v, 2): nearest hundredth, ties to even; nan and inf are kept
Round2(v) ==
    IF v.k # "num" THEN v
    ELSE LET x == v.n * Hundred
             q == x \div v.d
             r == x % v.d
             up == (2 * r > v.d) \/ (2 * r = v.d /\ q % 2 = 1)
         IN  Num(IF up THEN q + 1 ELSE q, Hundred)

(* ------------------------------ text ---------------------------------- *)
\* the characters of the model's names, in code point order
Chars ==
    << " ", "(", ")",
       "A", "B", "C", "D", "E", "F", "G", "H", "I", "J", "K", "L", "M",
       "N", "O", "P", "Q", "R", "S", "T", "U", "V", "W", "X", "Y", "Z",
       "a", "b", "c", "d", "e", "f", "g", "h", "i", "j", "k", "l", "m",
       "n", "o", "p", "q", "r", "s", "t", "u", "v", "w", "x", "y", "z" >>

CharSet == {Chars[i] : i \in 1..Len(Chars)}

\* ord(c), up to an order-preserving renumbering
Ord == [c \in CharSet |-> CHOOSE i \in 1..Len(Chars) : Chars[i] = c]

\* c.lower()
LowerChar == [c \in CharSet |->
                 IF Ord[c] >= 4 /\ Ord[c] <= 29 THEN Chars[Ord[c] + 26] ELSE c]

Lower(s) == [i \in 1..Len(s) |-> LowerChar[s[i]]]

\* a text cell holding the string s
Str(s) == [k |-> "str", s |-> s]

\* a missing text cell (NaN in an object column)
NaStr == [k |-> "nan", s |-> <<>>]

\* None, what st.selectbox returns when it has no options
PyNone == [k |-> "none", s |-> <<>>]

RECURSIVE StrLess(_, _)
\* a < b on Python strings
StrLess(a, b) ==
    IF b = <<>> THEN FALSE
    ELSE IF a = <<>> THEN TRUE
    ELSE IF Head(a) = Head(b) THEN StrLess(Tail(a), Tail(b))
    ELSE Ord[Head(a)] < Ord[Head(b)]

\* sorted(options)[0]
First(options) ==
    CHOOSE a \in options : \A b \in options : a = b \/ StrLess(a.s, b.s)

\* t in s
Contains(s, t) ==
    \E i \in 0..(Len(s) - Len(t)) : SubSeq(s, i + 1, i + Len(t)) = t

RECURSIVE Balanced(_, _)
\* re.compile(pat) accepts pat: every ")" closes a "(" and none stays open
Balanced(pat, depth) ==
    IF pat = <<>> THEN depth = 0
    ELSE IF Head(pat) = "(" THEN Balanced(Tail(pat), depth + 1)
    ELSE IF Head(pat) = ")" THEN depth > 0 /\ Balanced(Tail(pat), depth - 1)
    ELSE Balanced(Tail(pat), depth)

IsLiteral(c) == c \notin {"(", ")"}

\* the characters a compiled pattern has to find in a row: "(" and ")" open
\* and close a group and stand for no character of the text
PatternLiterals(pat) == SelectSeq(pat, IsLiteral)

\* bool(re.search(pat, text, re.IGNORECASE)), pat a compilable pattern
ReSearch(pat, text) == Contains(Lower(text), Lower(PatternLiterals(pat)))

\* one cell of Series.str.contains(pat, case=False, na=False)
StrContains(cell, pat) ==
    IF cell.k = "str" THEN ReSearch(pat, cell.s) ELSE FALSE


(* ------------------------- the workbook data.xlsx ---------------------- *)
\* the labels of the sheet's columns that a metric reads (lines 34-45)
ColCity == "1f. City"
ColState == "1a. State"
ColTotalBuses == "2a. Total number of buses"
ColCommittedEsb == "3a. Number of ESBs committed "
ColFreeLunch ==
    "4e. Percentage of students in district eligible for free or reduced price lunch"
ColPm25 == "5f. PM2.5 concentration"
ColMedianIncome == "4f. Median household income"

CALIFORNIA == Str(<<"C", "A", "L", "I", "F", "O", "R", "N", "I", "A">>)
KANSAS == Str(<<"K", "A", "N", "S", "A", "S">>)
ARKANSAS == Str(<<"A", "R", "K", "A", "N", "S", "A", "S">>)
Bakersfield == Str(<<"B", "a", "k", "e", "r", "s", "f", "i", "e", "l", "d">>)
BakersfieldLower == Str(<<"b", "a", "k", "e", "r", "s", "f", "i", "e", "l", "d">>)
BakersfieldEastGroup == Str(<<"B", "a", "k", "e", "r", "s", "f", "i", "e", "l", "d", " ", "(", "E", "a", "s", "t", ")">>)
BakersfieldEast == Str(<<"B", "a", "k", "e", "r", "s", "f", "i", "e", "l", "d", " ", "E", "a", "s", "t">>)
Taft == Str(<<"T", "a", "f", "t">>)

\* one row of the sheet "1. District-level data"
SheetRow(city, state, buses, esb, lunch, pm, inc) ==
    (ColCity :> city) @@ (ColState :> state) @@ (ColTotalBuses :> buses) @@
    (ColCommittedEsb :> esb) @@ (ColFreeLunch :> lunch) @@ (ColPm25 :> pm) @@
    (ColMedianIncome :> inc)

\* Three families of rows.  Each varies the cells one group of operations
\* reads and keeps the other cells at one ordinary value.
SelCities == <<Bakersfield, BakersfieldLower, BakersfieldEastGroup, BakersfieldEast, NaStr>>
SelStates == <<CALIFORNIA, KANSAS, ARKANSAS, NaStr>>
TwoCities == <<Bakersfield, Taft>>
Pm25Cells == <<NaN, Num(8, 1), Num(12, 1)>>
IncomeCells == <<NaN, Num(50000, 1)>>
LunchCells == <<NaN, Num(1, 2), Num(1, 1)>>

\* names of places: city and state vary
SelRow(i) ==
    SheetRow(SelCities[(i % Len(SelCities)) + 1],
             SelStates[((i \div Len(SelCities)) % Len(SelStates)) + 1],
             2, 1, Num(1, 2), Num(12, 1), Num(50000, 1))

NumSelRows == Len(SelCities) * Len(SelStates)

\* fleets: city, bus count and committed ESB count vary
FleetRow(i) ==
    SheetRow(TwoCities[(i % 2) + 1], CALIFORNIA,
             (i \div 2) % (MaxBuses + 1),
             (i \div (2 * (MaxBuses + 1))) % (MaxEsb + 1),
             Num(1, 2), Num(12, 1), Num(50000, 1))

NumFleetRows == 2 * (MaxBuses + 1) * (MaxEsb + 1)

\* measurements: city, PM2.5, income and lunch fraction vary
MeasureRow(i) ==
    SheetRow(TwoCities[(i % 2) + 1], CALIFORNIA, 2, 1,
             LunchCells[((i \div 2) % Len(LunchCells)) + 1],
             Pm25Cells[((i \div (2 * Len(LunchCells))) % Len(Pm25Cells)) + 1],
             IncomeCells[((i \div (2 * Len(LunchCells) * Len(Pm25Cells)))
                            % Len(IncomeCells)) + 1])

NumMeasureRows == 2 * Len(LunchCells) * Len(Pm25Cells) * Len(IncomeCells)

\* The sheets of one family with 1..MaxRows rows.  No operation of the script
\* reads the position of a row, so sheets are listed up to reordering.
Sheets(Row(_), count) ==
    UNION { { [j \in 1..n |-> Row(idx[j])] :
                idx \in { f \in [1..n -> 0..(count - 1)] :
                            \A j \in 1..(n - 1) : f[j] <= f[j + 1] } } :
            n \in 1..MaxRows }

Workbooks ==
    Sheets(SelRow, NumSelRows) \cup Sheets(FleetRow, NumFleetRows)
        \cup Sheets(MeasureRow, NumMeasureRows)

(* ----------------------------- the script ----------------------------- *)
VARIABLES
    file,            \* the sheet stored in data.xlsx
    cache,           \* the st.cache_data entry of load_data()
    cache_hit,       \* whether this run's load_data() call was served from it
    df,
    selected_state,
    selected_city,
    city_df,
    state_df,
    adoption,
    pm25,
    income,
    free_lunch,
    state_mean,
    city_small,
    state_small,
    pc               \* the line the run has reached, "raised" after an exception

vars == << file, cache, cache_hit, df, selected_state, selected_city, city_df,
           state_df, adoption, pm25, income, free_lunch, state_mean, city_small,
           state_small, pc >>

kpis == << adoption, pm25, income, free_lunch, state_mean >>
charts == << city_small, state_small >>

NoMeans == [esb_adoption_rate |-> Unset, pm25 |-> Unset,
            median_income |-> Unset, free_lunch_pct |-> Unset]

\* pd.read_excel(path, sheet_name="1. District-level data")
ReadExcel(f) == f

\* df = df[cols]; df.columns = [...]: the selected columns under their new names
SelectColumns(sheet) ==
    [i \in 1..Len(sheet) |->
        [city |-> sheet[i][ColCity],
         state |-> sheet[i][ColState],
         total_buses |-> sheet[i][ColTotalBuses],
         committed_esb |-> sheet[i][ColCommittedEsb],
         free_lunch_pct |-> sheet[i][ColFreeLunch],
         pm25 |-> sheet[i][ColPm25],
         median_income |-> sheet[i][ColMedianIncome]]]

\* df['free_lunch_pct'] * 100, one cell
FixPercentageScale(v) == Times(v, Hundred)

\* the column s[name] of a frame
Column(frame, name) == [i \in 1..Len(frame) |-> frame[i][name]]

\* series.dropna().unique() of a text column
UniqueNotNa(col) == {col[i] : i \in {j \in 1..Len(col) : col[j].k = "str"}}

\* st.selectbox(label, sorted(options), index=...): the default on a session's
\* first run, any option once the user has touched the widget, None without
\* options
Selectbox(options, preferred, first_run) ==
    IF options = {} THEN {PyNone}
    ELSE IF first_run
         THEN {IF preferred \in options THEN preferred ELSE First(options)}
         ELSE options

\* frame[frame['state'] == value]
RowsWithState(frame, value) ==
    LET Equal(r) == r.state = value IN SelectSeq(frame, Equal)

\* whether str.contains(pat, ...) raises: pat is None (TypeError) or does not
\* compile (re.error)
ContainsRaises(pat) == pat.k # "str" \/ ~Balanced(pat.s, 0)

\* df[city.str.contains(selected_city) & state.str.contains(selected_state)]
FilterCity(frame, state, city) ==
    LET Keep(r) == StrContains(r.city, city.s) /\ StrContains(r.state, state.s)
    IN  SelectSeq(frame, Keep)

\* df[df['state'].str.contains(selected_state, case=False, na=False)]
FilterState(frame, state) ==
    LET Keep(r) == StrContains(r.state, state.s) IN SelectSeq(frame, Keep)

\* (committed_esb / total_buses) * 100 of one row
RowRate(r) == Times(TrueDivide(r.committed_esb, r.total_buses), Hundred)

\* frame['esb_adoption_rate'] = (frame['committed_esb'] / frame['total_buses']) * 100
WithAdoptionRate(frame) ==
    [i \in 1..Len(frame) |->
        [c \in (DOMAIN frame[i]) \cup {"esb_adoption_rate"} |->
            IF c = "esb_adoption_rate" THEN RowRate(frame[i]) ELSE frame[i][c]]]

\* the mean of the rows' own rates in place of the ratio of the sums
CityAdoptionMeanOfRates(frame) ==
    SeriesMean(Column(WithAdoptionRate(frame), "esb_adoption_rate"))

\* (city_df['committed_esb'].sum() / city_df['total_buses'].sum()) * 100
CityAdoption(frame) ==
    Times(TrueDivide(SumInt(Column(frame, "committed_esb")),
                     SumInt(Column(frame, "total_buses"))), Hundred)

\* state_mean = {...}
StateMean(frame) ==
    [esb_adoption_rate |-> SeriesMean(Column(frame, "esb_adoption_rate")),
     pm25 |-> SeriesMean(Column(frame, "pm25")),
     median_income |-> SeriesMean(Column(frame, "median_income")),
     free_lunch_pct |-> SeriesMean(Column(frame, "free_lunch_pct"))]

Init ==
    /\ file \in Workbooks
    /\ cache = [stored |-> FALSE, value |-> <<>>]
    /\ cache_hit = FALSE
    /\ df = <<>>
    /\ selected_state = PyNone
    /\ selected_city = PyNone
    /\ city_df = <<>>
    /\ state_df = <<>>
    /\ adoption = Unset
    /\ pm25 = Unset
    /\ income = Unset
    /\ free_lunch = Unset
    /\ state_mean = NoMeans
    /\ city_small = <<Unset, Unset>>
    /\ state_small = <<Unset, Unset>>
    /\ pc = "start"

\* lines 25-50: df = load_data(), then the column selection and renaming
LoadData ==
    /\ pc = "start"
    /\ cache_hit' = cache.stored
    /\ cache' = IF cache.stored THEN cache
                ELSE [stored |-> TRUE, value |-> ReadExcel(file)]
    /\ df' = SelectColumns(cache'.value)
    /\ pc' = "loaded"
    /\ UNCHANGED << file, selected_state, selected_city, city_df, state_df,
                    kpis, charts >>

\* lines 52-53 on a frame that is the cached object itself: the assignment
\* reaches the cache entry
FixScaleSharedFrame ==
    /\ pc = "loaded"
    /\ df' = [i \in 1..Len(df) |->
                [df[i] EXCEPT !.free_lunch_pct = FixPercentageScale(@)]]
    /\ cache' = [cache EXCEPT !.value =
                    [i \in 1..Len(@) |->
                        [@[i] EXCEPT ![ColFreeLunch] = FixPercentageScale(@)]]]
    /\ pc' = "scaled"
    /\ UNCHANGED << file, cache_hit, selected_state, selected_city,
                    city_df, state_df, kpis, charts >>

\* lines 52-53
FixScale ==
    /\ pc = "loaded"
    /\ df' = [i \in 1..Len(df) |->
                [df[i] EXCEPT !.free_lunch_pct = FixPercentageScale(@)]]
    /\ pc' = "scaled"
    /\ UNCHANGED << file, cache, cache_hit, selected_state, selected_city,
                    city_df, state_df, kpis, charts >>

\* lines 55-62
Sidebar ==
    /\ pc = "scaled"
    /\ \E s \in Selectbox(UniqueNotNa(Column(df, "state")), CALIFORNIA, ~cache_hit) :
         \E c \in Selectbox(UniqueNotNa(Column(RowsWithState(df, s), "city")),
                            Bakersfield, ~cache_hit) :
            /\ selected_state' = s
            /\ selected_city' = c
    /\ pc' = "selected"
    /\ UNCHANGED << file, cache, cache_hit, df, city_df, state_df, kpis, charts >>

\* lines 64-66
FilterData ==
    /\ pc = "selected"
    /\ IF ContainsRaises(selected_city) \/ ContainsRaises(selected_state)
       THEN /\ pc' = "raised"
            /\ UNCHANGED city_df
       ELSE /\ city_df' = FilterCity(df, selected_state, selected_city)
            /\ pc' = "filtered"
    /\ UNCHANGED << file, cache, cache_hit, df, selected_state, selected_city,
                    state_df, kpis, charts >>

\* lines 68-83
ComputeKPIs ==
    /\ pc = "filtered"
    /\ df' = WithAdoptionRate(df)
    /\ city_df' = WithAdoptionRate(city_df)
    /\ adoption' = CityAdoption(city_df')
    /\ pm25' = SeriesMean(Column(city_df', "pm25"))
    /\ income' = SeriesMean(Column(city_df', "median_income"))
    /\ free_lunch' = SeriesMean(Column(city_df', "free_lunch_pct"))
    /\ state_df' = FilterState(df', selected_state)
    /\ state_mean' = StateMean(state_df')
    /\ pc' = "computed"
    /\ UNCHANGED << file, cache, cache_hit, selected_state, selected_city, charts >>

\* lines 85-170: the figures; city_small and state_small are the bars of the
\* first comparison chart
Render ==
    /\ pc = "computed"
    /\ city_small' = <<Round2(adoption), Round2(pm25)>>
    /\ state_small' = <<Round2(state_mean.esb_adoption_rate), Round2(state_mean.pm25)>>
    /\ pc' = "done"
    /\ UNCHANGED << file, cache, cache_hit, df, selected_state, selected_city,
                    city_df, state_df, kpis >>

\* a widget change: streamlit runs the script again from its first line; only
\* the st.cache_data store outlives the run
Rerun ==
    /\ pc \in {"done", "raised"}
    /\ df' = <<>>
    /\ selected_state' = PyNone
    /\ selected_city' = PyNone
    /\ city_df' = <<>>
    /\ state_df' = <<>>
    /\ adoption' = Unset
    /\ pm25' = Unset
    /\ income' = Unset
    /\ free_lunch' = Unset
    /\ state_mean' = NoMeans
    /\ city_small' = <<Unset, Unset>>
    /\ state_small' = <<Unset, Unset>>
    /\ pc' = "start"
    /\ UNCHANGED << file, cache, cache_hit >>

Next ==
    \/ LoadData
    \/ FixScale
    \/ Sidebar
    \/ FilterData
    \/ ComputeKPIs
    \/ Render
    \/ Rerun

Spec == Init /\ [][Next]_vars

(* ------------------------------ properties ---------------------------- *)
AfterFilter == pc \in {"filtered", "computed", "done"}
AfterKPIs == pc \in {"computed", "done"}
AfterScale == pc \in {"scaled", "selected", "filtered", "computed", "done", "raised"}

\* v is the exact quotient 100 * a / b, b > 0
IsPercentOf(v, a, b) == v.k = "num" /\ v.n * b = Hundred * a * v.d

\* 0 <= v <= 100
InPercentRange(v) == v.k = "num" /\ v.n <= Hundred * v.d

TotalBuses(frame) == SumInt(Column(frame, "total_buses"))
CommittedEsb(frame) == SumInt(Column(frame, "committed_esb"))

\* the scenario of the specification's section 8
ExampleFleet ==
    << [total_buses |-> 10, committed_esb |-> 2],
       [total_buses |-> 20, committed_esb |-> 5],
       [total_buses |-> 0, committed_esb |-> 0] >>

\* C1: whenever the selected city's rows hold at least one bus, the city-scope
\* adoption rate is sum(committed_esb) / sum(total_buses) * 100 over exactly
\* the rows of city_df; the rows (10, 2), (20, 5), (0, 0) give 23.33.
C1_CityAdoptionIsRatioOfSums ==
    /\ Round2(CityAdoption(ExampleFleet)) = Num(2333, 100)
    /\ (AfterKPIs /\ TotalBuses(city_df) > 0) =>
          IsPercentOf(adoption, CommittedEsb(city_df), TotalBuses(city_df))

\* a finished run whose ratio of sums differs from the mean of the rows' rates
C1_Witness ==
    /\ pc = "done"
    /\ TotalBuses(city_df) > 0
    /\ Len(city_df) > 1
    /\ adoption # SeriesMean(Column(city_df, "esb_adoption_rate"))

EveryRowHasBuses(frame) == \A i \in 1..Len(frame) : frame[i].total_buses > 0

\* C2: the state-scope adoption rate shown next to the city's rate is
\* sum(committed_esb) / sum(total_buses) * 100 over state_df, and so is the
\* bar drawn from it.  Stated for the states in which every row has a bus,
\* where no division by zero takes part.
C2_StateAdoptionIsRatioOfSums ==
    /\ (AfterKPIs /\ state_df # <<>> /\ EveryRowHasBuses(state_df)) =>
          IsPercentOf(state_mean.esb_adoption_rate,
                      CommittedEsb(state_df), TotalBuses(state_df))
    /\ (pc = "done" /\ state_df # <<>> /\ EveryRowHasBuses(state_df)) =>
          state_small[1] = Round2(Times(TrueDivide(CommittedEsb(state_df),
                                                   TotalBuses(state_df)), Hundred))

\* the rate column of a frame is null on a row without buses and the exact
\* percentage on every other row
RatesAreNullSafe(frame) ==
    \A i \in 1..Len(frame) :
        IF frame[i].total_buses = 0
        THEN frame[i].esb_adoption_rate = NaN
        ELSE IsPercentOf(frame[i].esb_adoption_rate,
                         frame[i].committed_esb, frame[i].total_buses)

\* C3: in the full table and in the city subset, a row with total_buses = 0
\* has a null esb_adoption_rate whatever its committed_esb, and every other
\* row has committed_esb / total_buses * 100.
C3_RowRateNullWithoutBuses ==
    AfterKPIs => (RatesAreNullSafe(df) /\ RatesAreNullSafe(city_df))

\* C4: no adoption aggregate is infinite, and a scope whose rows hold no bus
\* has a null adoption rate.
C4_NoInfiniteAggregate ==
    AfterKPIs =>
        /\ adoption.k # "inf"
        /\ state_mean.esb_adoption_rate.k # "inf"
        /\ (TotalBuses(city_df) = 0 => adoption = NaN)
        /\ (TotalBuses(state_df) = 0 => state_mean.esb_adoption_rate = NaN)

RECURSIVE SumOver(_, _)
\* the sum of the cells of col at the positions in idx
SumOver(col, idx) ==
    IF idx = {} THEN Num(0, 1)
    ELSE LET i == CHOOSE j \in idx : TRUE
         IN  Plus(col[i], SumOver(col, idx \ {i}))

\* m is the mean of the non-null cells of col, null when there is none
IsMeanOfNonNull(m, col) ==
    LET idx == {i \in 1..Len(col) : col[i].k # "nan"}
    IN  IF idx = {} THEN m = NaN
        ELSE m.k = "num" /\ Times(m, Cardinality(idx)) = SumOver(col, idx)

\* C5: for pm25, median_income and free_lunch_pct, in the city scope and in
\* the state scope, the mean is the sum of the non-null cells over their
\* count, and null when the scope has no non-null cell; [10, null, 20] gives 15.
C5_MeansSkipNulls ==
    /\ SeriesMean(<<Num(10, 1), NaN, Num(20, 1)>>) = Num(15, 1)
    /\ AfterKPIs =>
          /\ IsMeanOfNonNull(pm25, Column(city_df, "pm25"))
          /\ IsMeanOfNonNull(income, Column(city_df, "median_income"))
          /\ IsMeanOfNonNull(free_lunch, Column(city_df, "free_lunch_pct"))
          /\ IsMeanOfNonNull(state_mean.pm25, Column(state_df, "pm25"))
          /\ IsMeanOfNonNull(state_mean.median_income,
                             Column(state_df, "median_income"))
          /\ IsMeanOfNonNull(state_mean.free_lunch_pct,
                             Column(state_df, "free_lunch_pct"))

HasNaN(col) == \E i \in 1..Len(col) : col[i].k = "nan"
HasNum(col) == \E i \in 1..Len(col) : col[i].k = "num"

\* a finished run whose city rows mix a null and a measured pm25 and hold no
\* median income at all
C5_Witness ==
    /\ pc = "done"
    /\ HasNaN(Column(city_df, "pm25"))
    /\ HasNum(Column(city_df, "pm25"))
    /\ pm25.k = "num"
    /\ city_df # <<>>
    /\ ~HasNum(Column(city_df, "median_income"))
    /\ income = NaN

\* C6: when the selection matches no row, city_df is empty, the four city
\* metrics are null, and the run goes on to its end: an exception comes only
\* from a selection that is None or is no pattern, never from an empty match.
C6_EmptySelectionAllNull ==
    /\ (AfterKPIs /\ city_df = <<>>) =>
          /\ adoption = NaN
          /\ pm25 = NaN
          /\ income = NaN
          /\ free_lunch = NaN
    /\ (pc = "done" /\ city_df = <<>>) => city_small = <<NaN, NaN>>
    /\ (pc = "filtered" /\ city_df = <<>>) => ENABLED ComputeKPIs
    /\ (pc = "computed" /\ city_df = <<>>) => ENABLED Render
    /\ pc = "raised" =>
          (ContainsRaises(selected_city) \/ ContainsRaises(selected_state))

\* a finished run of a selection that matched no row
C6_Witness ==
    /\ pc = "done"
    /\ selected_city.k = "str"
    /\ selected_state.k = "str"
    /\ city_df = <<>>

\* cell contains sel as a substring, compared without regard to case
ContainsIgnoringCase(cell, sel) ==
    cell.k = "str" /\ Contains(Lower(cell.s), Lower(sel.s))

\* C7: city_df is exactly the rows whose city contains the selected city and
\* whose state contains the selected state, as substrings and without regard
\* to case; state_df is exactly the rows whose state contains the selected
\* state; a row with a null city or state is in neither.
C7_FilterIsSubstringMatch ==
    /\ pc = "filtered" =>
          LET InCity(r) == /\ ContainsIgnoringCase(r.city, selected_city)
                           /\ ContainsIgnoringCase(r.state, selected_state)
          IN  city_df = SelectSeq(df, InCity)
    /\ AfterKPIs =>
          LET InState(r) == ContainsIgnoringCase(r.state, selected_state)
          IN  state_df = SelectSeq(df, InState)

\* C8: in every run, the first and every later one, each row's free_lunch_pct
\* is the fraction stored in the workbook times 100, applied once, and lies
\* in [0, 100]; so do the values of the rows the metrics are computed from.
C8_ScaledExactlyOnce ==
    AfterScale =>
        /\ Len(df) = Len(file)
        /\ \A i \in 1..Len(df) :
              LET raw == file[i][ColFreeLunch]
                  v == df[i].free_lunch_pct
              IN  IF raw.k = "nan" THEN v = NaN
                  ELSE /\ v.k = "num"
                       /\ v.n * raw.d = Hundred * raw.n * v.d
                       /\ InPercentRange(v)
        /\ \A i \in 1..Len(city_df) :
              city_df[i].free_lunch_pct.k = "num" =>
                  InPercentRange(city_df[i].free_lunch_pct)
        /\ \A i \in 1..Len(state_df) :
              state_df[i].free_lunch_pct.k = "num" =>
                  InPercentRange(state_df[i].free_lunch_pct)

\* a finished run that was served from the cache and whose city rows hold a
\* positive lunch percentage
C8_Witness ==
    /\ pc = "done"
    /\ cache_hit
    /\ \E i \in 1..Len(city_df) :
          /\ city_df[i].free_lunch_pct.k = "num"
          /\ city_df[i].free_lunch_pct.n > 0
    /\ free_lunch.k = "num"

\* the frame of a first run on the workbook, after lines 46-53
FreshFrame ==
    [i \in 1..Len(file) |->
        [SelectColumns(ReadExcel(file))[i] EXCEPT
            !.free_lunch_pct = FixPercentageScale(@)]]

\* C9: the cache entry stays the sheet that was read; after the KPIs are
\* computed every base column of df holds what a first run holds, the derived
\* column of city_df having been written; and the metrics of a selection are
\* those of a first run on the workbook with that selection.
C9_BaseRecordsUnchanged ==
    /\ cache.stored => cache.value = file
    /\ AfterKPIs =>
          /\ Len(df) = Len(file)
          /\ \A i \in 1..Len(df) :
                \A c \in DOMAIN FreshFrame[i] : df[i][c] = FreshFrame[i][c]
          /\ LET rows == WithAdoptionRate(
                            FilterCity(FreshFrame, selected_state, selected_city))
                 in_state == FilterState(WithAdoptionRate(FreshFrame), selected_state)
             IN  /\ city_df = rows
                 /\ adoption = CityAdoption(rows)
                 /\ pm25 = SeriesMean(Column(rows, "pm25"))
                 /\ income = SeriesMean(Column(rows, "median_income"))
                 /\ free_lunch = SeriesMean(Column(rows, "free_lunch_pct"))
                 /\ state_mean = StateMean(in_state)

\* a finished run served from the cache whose city rows are a proper part of
\* the table
C9_Witness ==
    /\ pc = "done"
    /\ cache_hit
    /\ city_df # <<>>
    /\ Len(city_df) < Len(df)

\* C10: every selection the sidebar offers has at least one row in city_df,
\* and every row of city_df is a row of state_df.
C10_OfferedCityHasRows ==
    /\ AfterFilter => city_df # <<>>
    /\ AfterKPIs =>
          \A i \in 1..Len(city_df) :
              \E j \in 1..Len(state_df) : state_df[j] = city_df[i]

====
